---- MODULE Spec2Model ----
(***************************************************************************)
(* Model of the Rinu live audio/video session controller (App component).  *)
(*                                                                         *)
(* The component is a React function component.  Its state lives in        *)
(*   - React state (connectionState, isScreenSharing, errorMsg), whose     *)
(*     value a handler reads is the one of the render that created the     *)
(*     handler (variable `rendered`); a setter takes effect for handlers   *)
(*     at the next Render;                                                 *)
(*   - refs (frameIntervalRef, processorRef, ...), read and written        *)
(*     directly;                                                           *)
(*   - the browser objects the refs point at (audio contexts, script       *)
(*     processor, interval timer, media streams, buffer sources) and the   *)
(*     transports opened by ai.live.connect.                               *)
(*                                                                         *)
(* Every object created by the k-th startSession call carries the index k. *)
(* A ref holds such an index, or Null.  An `await` in the source ends an   *)
(* action: the continuation is a separate action, and other handlers may   *)
(* run in between.                                                         *)
(***************************************************************************)
EXTENDS Integers, Sequences, FiniteSets, Bags, TLC

\* ---------------------------------------------------------------- bounds
MaxSessions ==
    2
MaxMsgs ==
    3
MaxTime ==
    2
MaxScreens ==
    2
MaxPending ==
    1
\* audio blocks captured, video frames drawn
MaxChunks ==
    2
MaxFrames ==
    2
\* samples of one capture block
MaxLen ==
    2
\* spacing of the sample values tried, in units of 1 / SampleDen
SampleStep ==
    4681

Null ==
    0
Sessions ==
    1..MaxSessions
Screens ==
    1..MaxScreens
\* buffer durations, in clock units
Durations ==
    {1, 2}

\* ConnectionState enum
DISCONNECTED ==
    "disconnected"
CONNECTING ==
    "connecting"
CONNECTED ==
    "connected"
ERROR ==
    "error"

VARIABLES
    apiKey,                \* process.env.API_KEY is set
    auth,                  \* "unauth" | "requesting" | "granted" | "denied": login and startCamera
    connectionState,       \* React state, latest value set
    isScreenSharing,       \* React state, latest value set
    errorMsg,              \* React state, latest value set
    rendered,              \* the state values captured by the handlers of the committed render
    streamRef,             \* camera + mic stream: Null or 1
    camVideoEnabled,       \* enabled flag of the camera video track
    screenStreamRef,       \* Null or a screen-stream index
    screenTrack,           \* screen stream i: "none" | "live" | "stopped"
    screenPending,         \* getDisplayMedia calls awaiting the user's answer
    videoSrc,              \* videoRef.current.srcObject: "none" | "camera" | "screen"
    frameIntervalRef, processorRef, inputSourceRef,
    inputAudioContextRef, outputAudioContextRef, sessionPromiseRef,
    nStarted,              \* startSession calls that reached the try block
    transport,             \* k -> "none" | "connecting" | "open" | "error" | "closed" | "rejected"
    capScreenSharing,      \* k -> isScreenSharing seen by the stopSession the callbacks of k hold
    inputCtx, outputCtx,   \* k -> "none" | "running" | "closed"
    birth,                 \* k -> clock value at which output context k was created
    inputSource,           \* k -> "none" | "connected" | "disconnected"
    processor,             \* k -> "none" | "installed" | "detached"
    timer,                 \* k -> "none" | "armed" | "cleared"
    nextStartTimeRef,      \* timeline cursor
    sourcesRef,            \* set of indices into srcs
    srcs,                  \* every buffer source started so far, in start order
    pending,               \* bag of the onmessage invocations suspended at their await
    nMsgs,                 \* onmessage invocations that reached the await so far
    now,                   \* the audio clock
    hist,                  \* history: the last interruption, and what happened to the
                           \* cursor since the last source was started
    stopsInARow,           \* history: consecutive stopSession-only handlers just run
    fault,                 \* an operation was applied to a released object
    floatData,             \* a Float32Array handed to createBlob: sample numerators over SampleDen
    blobData,              \* the data field createBlob returned: base64 symbols
    channelData,           \* the channel data decodeAudioData wrote: numerators over Scale
    resolved,              \* the sessions whose connect promise has resolved
    reactions,             \* k -> the callbacks registered with sessionPromise.then, in order
    sent,                  \* every argument of session.sendRealtimeInput so far, in call order
    toBlobs,               \* the frames whose canvas.toBlob has not called back yet
    readers,               \* the frames whose blobToBase64 has not settled yet
    nAudio, nVideo,        \* audio blocks captured, video frames drawn, so far
    isVideoEnabled,        \* React state, latest value set
    renderedVideo,         \* isVideoEnabled as the handlers of the committed render hold it
    capVideoEnabled,       \* k -> isVideoEnabled seen by the interval callback of session k
    pc,                    \* position inside a running stopSession call: 0 (none) or the
                           \* index of its next step
    entry,                 \* history: the state and closure the last step-wise stopSession
                           \* call started from (a sequence of at most one record)
    pip                    \* document.pictureInPictureElement is set

refVars ==
    <<frameIntervalRef, processorRef, inputSourceRef,
      inputAudioContextRef, outputAudioContextRef, sessionPromiseRef>>
objVars ==
    <<transport, capScreenSharing, inputCtx, outputCtx, birth, inputSource, processor, timer>>
screenVars ==
    <<isScreenSharing, screenStreamRef, screenTrack, screenPending, videoSrc, camVideoEnabled>>
playVars ==
    <<nextStartTimeRef, sourcesRef, srcs, pending, nMsgs, hist>>
codecVars ==
    <<floatData, blobData, channelData>>
sendVars ==
    <<resolved, reactions, sent, toBlobs, readers, nAudio, nVideo>>
appVars ==
    <<apiKey, auth, connectionState, errorMsg, rendered, streamRef, nStarted, now,
      stopsInARow, fault, refVars, objVars, screenVars, playVars>>
videoVars ==
    <<isVideoEnabled, renderedVideo, capVideoEnabled>>
stepVars ==
    <<pc, entry, pip>>
vars ==
    <<appVars, codecVars, sendVars, videoVars, stepVars>>

Max(a, b) ==
    IF a >= b THEN a ELSE b

\* ctx.currentTime of output context k: every context counts from its creation
currentTime(k) ==
    now - birth[k]

\* ---------------------------------------------------------------- PCM helpers
\* the factor of createBlob and decodeAudioData
Scale ==
    32768
\* a sample is the float n / SampleDen: halves of the int16 step, exact in a Float32Array
SampleDen ==
    2 * Scale
\* sample numerators per int16 step
PerStep ==
    SampleDen \div Scale
\* the base64 padding symbol; the other symbols are their index 0..63 in the alphabet
Pad ==
    64

\* the number-to-Int16Array conversion of a store: truncate towards zero, wrap modulo 2^16
ToInt16(num, den) ==
    LET t == IF num >= 0 THEN num \div den ELSE -((-num) \div den)
        u == t % 65536
    IN  IF u >= 32768 THEN u - 65536 ELSE u

\* new Uint8Array(int16.buffer): two bytes per element, low byte first
BytesOf(int16) ==
    [j \in 1..(2 * Len(int16)) |->
        LET u == int16[(j + 1) \div 2] % 65536
        IN  IF j % 2 = 1 THEN u % 256 ELSE u \div 256]

\* new Int16Array(data.buffer)
Int16Of(bytes) ==
    [i \in 1..(Len(bytes) \div 2) |->
        LET u == bytes[2 * i - 1] + 256 * bytes[2 * i]
        IN  IF u >= 32768 THEN u - 65536 ELSE u]

RECURSIVE btoa(_)
btoa(b) ==
    IF Len(b) = 0 THEN <<>>
    ELSE IF Len(b) = 1 THEN <<b[1] \div 4, (b[1] % 4) * 16, Pad, Pad>>
    ELSE IF Len(b) = 2
         THEN <<b[1] \div 4, (b[1] % 4) * 16 + b[2] \div 16, (b[2] % 16) * 4, Pad>>
    ELSE <<b[1] \div 4, (b[1] % 4) * 16 + b[2] \div 16,
           (b[2] % 16) * 4 + b[3] \div 64, b[3] % 64>> \o btoa(SubSeq(b, 4, Len(b)))

RECURSIVE atob(_)
atob(s) ==
    IF Len(s) < 4 THEN <<>>
    ELSE LET first == <<s[1] * 4 + s[2] \div 16>>
             second == IF s[3] = Pad THEN <<>> ELSE <<(s[2] % 16) * 16 + s[3] \div 4>>
             third == IF s[4] = Pad THEN <<>> ELSE <<(s[3] % 4) * 64 + s[4]>>
         IN  first \o second \o third \o atob(SubSeq(s, 5, Len(s)))

\* decode(base64)
decode(base64) ==
    atob(base64)

\* decodeAudioData(data, ctx, sampleRate, 1): the channel data, as numerators over Scale
decodeAudioData(data) ==
    Int16Of(data)

\* encode(bytes)
encode(bytes) ==
    btoa(bytes)

\* createBlob(data).data; data[i] * 32768 is the rational data[i] / PerStep
createBlob(data) ==
    encode(BytesOf([i \in 1..Len(data) |-> ToInt16(data[i], PerStep)]))

\* ------------------------------------------------ the state stopSession acts on
Cur ==
    [ connectionState |-> connectionState, isScreenSharing |-> isScreenSharing,
      frameIntervalRef |-> frameIntervalRef, processorRef |-> processorRef,
      inputSourceRef |-> inputSourceRef, inputAudioContextRef |-> inputAudioContextRef,
      outputAudioContextRef |-> outputAudioContextRef, sessionPromiseRef |-> sessionPromiseRef,
      timer |-> timer, processor |-> processor, inputSource |-> inputSource,
      inputCtx |-> inputCtx, outputCtx |-> outputCtx,
      sourcesRef |-> sourcesRef, srcs |-> srcs, nextStartTimeRef |-> nextStartTimeRef,
      screenStreamRef |-> screenStreamRef, screenTrack |-> screenTrack,
      camVideoEnabled |-> camVideoEnabled, videoSrc |-> videoSrc, fault |-> fault ]

Apply(s) ==
    /\ connectionState' = s.connectionState
    /\ isScreenSharing' = s.isScreenSharing
    /\ frameIntervalRef' = s.frameIntervalRef
    /\ processorRef' = s.processorRef
    /\ inputSourceRef' = s.inputSourceRef
    /\ inputAudioContextRef' = s.inputAudioContextRef
    /\ outputAudioContextRef' = s.outputAudioContextRef
    /\ sessionPromiseRef' = s.sessionPromiseRef
    /\ timer' = s.timer
    /\ processor' = s.processor
    /\ inputSource' = s.inputSource
    /\ inputCtx' = s.inputCtx
    /\ outputCtx' = s.outputCtx
    /\ sourcesRef' = s.sourcesRef
    /\ srcs' = s.srcs
    /\ nextStartTimeRef' = s.nextStartTimeRef
    /\ screenStreamRef' = s.screenStreamRef
    /\ screenTrack' = s.screenTrack
    /\ camVideoEnabled' = s.camVideoEnabled
    /\ videoSrc' = s.videoSrc
    /\ fault' = s.fault

\* variant of stopSources that stops nothing
stopSourcesNone(list, set) ==
    list

\* source.stop() on every source of the set
stopSources(list, set) ==
    [i \in DOMAIN list |-> IF i \in set THEN [list[i] EXCEPT !.state = "stopped"] ELSE list[i]]

\* variant of stopScreenShare that also drops the audio processor
stopScreenShareAndProcessor(s) ==
    [s EXCEPT !.screenStreamRef = Null, !.isScreenSharing = FALSE, !.processorRef = Null]

\* stopScreenShare (videoRef is always mounted once the main screen is rendered)
stopScreenShareOn(s) ==
    LET a == IF s.screenStreamRef # Null
             THEN [s EXCEPT !.screenTrack[s.screenStreamRef] = "stopped",
                            !.screenStreamRef = Null]
             ELSE s
        b == IF streamRef # Null
             THEN [a EXCEPT !.camVideoEnabled = TRUE, !.videoSrc = "camera"]
             ELSE a
    IN  [b EXCEPT !.isScreenSharing = FALSE]

\* variant of closeOutputContextOn that closes the context and keeps the ref
closeOutputContextKeepRef(s) ==
    IF s.outputAudioContextRef # Null
    THEN [s EXCEPT !.fault = s.fault \/ s.outputCtx[s.outputAudioContextRef] # "running",
                   !.outputCtx[s.outputAudioContextRef] = "closed"]
    ELSE s

\* stopSession's output-context step; close() on a context already closed is a fault
closeOutputContextOn(s) ==
    IF s.outputAudioContextRef # Null
    THEN [s EXCEPT !.fault = s.fault \/ s.outputCtx[s.outputAudioContextRef] # "running",
                   !.outputCtx[s.outputAudioContextRef] = "closed",
                   !.outputAudioContextRef = Null]
    ELSE s

\* stopSession, as held by a closure that saw isScreenSharing = sharing
stopSessionOn(s, sharing) ==
    LET a == IF s.frameIntervalRef # Null
             THEN [s EXCEPT !.timer[s.frameIntervalRef] = "cleared", !.frameIntervalRef = Null]
             ELSE s
        b == IF a.processorRef # Null
             THEN [a EXCEPT !.processor[a.processorRef] = "detached", !.processorRef = Null]
             ELSE a
        c == IF b.inputSourceRef # Null
             THEN [b EXCEPT !.inputSource[b.inputSourceRef] = "disconnected",
                            !.inputSourceRef = Null]
             ELSE b
        d == IF c.inputAudioContextRef # Null
             THEN [c EXCEPT !.fault = c.fault \/ c.inputCtx[c.inputAudioContextRef] # "running",
                            !.inputCtx[c.inputAudioContextRef] = "closed",
                            !.inputAudioContextRef = Null]
             ELSE c
        e == closeOutputContextOn(d)
        f == [e EXCEPT !.srcs = stopSources(e.srcs, e.sourcesRef),
                       !.sourcesRef = {},
                       !.nextStartTimeRef = 0,
                       !.sessionPromiseRef = Null,
                       !.connectionState = DISCONNECTED]
    IN  IF sharing THEN stopScreenShareOn(f) ELSE f

\* variant of stopSessionOrder that closes the input context before cancelling the timer
stopSessionOrderContextFirst ==
    <<"inputContext", "audioNodes", "interval", "outputContext", "playback", "session",
      "screenShare", "pictureInPicture">>

\* the statements of stopSession in program order, one name per block
stopSessionOrder ==
    <<"interval", "audioNodes", "inputContext", "outputContext", "playback", "session",
      "screenShare", "pictureInPicture">>

\* one block of stopSession on the state s (the last block acts on the document, not on s)
stopSessionBlock(s, name, sharing) ==
    CASE name = "interval" ->
            IF s.frameIntervalRef # Null
            THEN [s EXCEPT !.timer[s.frameIntervalRef] = "cleared", !.frameIntervalRef = Null]
            ELSE s
      [] name = "audioNodes" ->
            LET b == IF s.processorRef # Null
                     THEN [s EXCEPT !.processor[s.processorRef] = "detached",
                                    !.processorRef = Null]
                     ELSE s
            IN  IF b.inputSourceRef # Null
                THEN [b EXCEPT !.inputSource[b.inputSourceRef] = "disconnected",
                               !.inputSourceRef = Null]
                ELSE b
      [] name = "inputContext" ->
            IF s.inputAudioContextRef # Null
            THEN [s EXCEPT !.fault = s.fault \/ s.inputCtx[s.inputAudioContextRef] # "running",
                           !.inputCtx[s.inputAudioContextRef] = "closed",
                           !.inputAudioContextRef = Null]
            ELSE s
      [] name = "outputContext" -> closeOutputContextOn(s)
      [] name = "playback" ->
            [s EXCEPT !.srcs = stopSources(s.srcs, s.sourcesRef),
                      !.sourcesRef = {},
                      !.nextStartTimeRef = 0]
      [] name = "session" ->
            [s EXCEPT !.sessionPromiseRef = Null, !.connectionState = DISCONNECTED]
      [] name = "screenShare" -> IF sharing THEN stopScreenShareOn(s) ELSE s
      [] name = "pictureInPicture" -> s

\* ---------------------------------------------------------------- initial state
NoHist ==
    [intrCtx |-> Null, intrAt |-> -1, chain |-> "reset", dropped |-> -1]

InitApp ==
    /\ apiKey \in BOOLEAN
    /\ auth = "unauth"
    /\ connectionState = DISCONNECTED
    /\ isScreenSharing = FALSE
    /\ errorMsg = "none"
    /\ rendered = [connectionState |-> DISCONNECTED, isScreenSharing |-> FALSE]
    /\ streamRef = Null
    /\ camVideoEnabled = FALSE
    /\ screenStreamRef = Null
    /\ screenTrack = [i \in Screens |-> "none"]
    /\ screenPending = 0
    /\ videoSrc = "none"
    /\ frameIntervalRef = Null
    /\ processorRef = Null
    /\ inputSourceRef = Null
    /\ inputAudioContextRef = Null
    /\ outputAudioContextRef = Null
    /\ sessionPromiseRef = Null
    /\ nStarted = 0
    /\ transport = [k \in Sessions |-> "none"]
    /\ capScreenSharing = [k \in Sessions |-> FALSE]
    /\ inputCtx = [k \in Sessions |-> "none"]
    /\ outputCtx = [k \in Sessions |-> "none"]
    /\ birth = [k \in Sessions |-> 0]
    /\ inputSource = [k \in Sessions |-> "none"]
    /\ processor = [k \in Sessions |-> "none"]
    /\ timer = [k \in Sessions |-> "none"]
    /\ nextStartTimeRef = 0
    /\ sourcesRef = {}
    /\ srcs = <<>>
    /\ pending = EmptyBag
    /\ nMsgs = 0
    /\ now = 0
    /\ hist = NoHist
    /\ stopsInARow = 0
    /\ fault = FALSE
    /\ resolved = {}
    /\ reactions = [k \in Sessions |-> <<>>]
    /\ sent = <<>>
    /\ toBlobs = {}
    /\ readers = {}
    /\ nAudio = 0
    /\ nVideo = 0
    /\ isVideoEnabled = TRUE
    /\ renderedVideo = TRUE
    /\ capVideoEnabled = [k \in Sessions |-> TRUE]
    /\ pc = 0
    /\ entry = <<>>
    /\ pip = FALSE

\* no block is being converted
Init ==
    /\ InitApp
    /\ floatData = <<>>
    /\ blobData = <<>>
    /\ channelData = <<>>

\* ---------------------------------------------------------------- login and camera
\* login (or a saved user found on mount): the effect of lines 303-312 calls startCamera,
\* which suspends at getUserMedia
Authenticate ==
    /\ auth = "unauth"
    /\ auth' = "requesting"
    /\ stopsInARow' = 0
    /\ UNCHANGED <<apiKey, connectionState, errorMsg, rendered, streamRef, nStarted, now,
                   fault, refVars, objVars, screenVars, playVars>>
    /\ UNCHANGED <<codecVars, stepVars, sendVars, videoVars>>

\* startCamera after its await: the stream is granted, or the catch block runs
startCamera(granted) ==
    /\ auth = "requesting"
    /\ IF granted
       THEN /\ auth' = "granted"
            /\ streamRef' = 1
            /\ camVideoEnabled' = TRUE
            /\ videoSrc' = "camera"
            /\ errorMsg' = errorMsg
       ELSE /\ auth' = "denied"
            /\ errorMsg' = "CAMERA_ACCESS_DENIED"
            /\ UNCHANGED <<streamRef, camVideoEnabled, videoSrc>>
    /\ stopsInARow' = 0
    /\ UNCHANGED <<apiKey, connectionState, rendered, nStarted, now, fault, refVars, objVars,
                   isScreenSharing, screenStreamRef, screenTrack, screenPending, playVars>>
    /\ UNCHANGED <<codecVars, stepVars, sendVars, videoVars>>

\* React commits a render: the handlers now hold the latest state values
Render ==
    /\ \/ rendered # [connectionState |-> connectionState, isScreenSharing |-> isScreenSharing]
       \/ renderedVideo # isVideoEnabled
    /\ rendered' = [connectionState |-> connectionState, isScreenSharing |-> isScreenSharing]
    /\ renderedVideo' = isVideoEnabled
    /\ stopsInARow' = 0
    /\ UNCHANGED <<apiKey, auth, connectionState, errorMsg, streamRef, nStarted, now,
                   fault, refVars, objVars, screenVars, playVars>>
    /\ UNCHANGED <<codecVars, stepVars, sendVars, isVideoEnabled, capVideoEnabled>>

\* the audio clock advances; only a running context shows it (currentTime of a closed
\* context stands still), so the clock is let run only while one exists
Tick ==
    /\ now < MaxTime
    /\ \E k \in Sessions : outputCtx[k] = "running"
    /\ now' = now + 1
    /\ stopsInARow' = 0
    /\ UNCHANGED <<apiKey, auth, connectionState, errorMsg, rendered, streamRef, nStarted,
                   fault, refVars, objVars, screenVars, playVars>>
    /\ UNCHANGED <<codecVars, stepVars, sendVars, videoVars>>

\* ---------------------------------------------------------------- screen sharing
AcquiredScreens ==
    {i \in Screens : screenTrack[i] # "none"}

\* no screen stream was requested or acquired so far, or the button reads "stop sharing"
FirstShare ==
    rendered.isScreenSharing \/ screenPending + Cardinality(AcquiredScreens) = 0

\* toggleScreenShare up to its await (or, when the render saw sharing, stopScreenShare)
toggleScreenShare ==
    /\ auth # "unauth"
    /\ IF rendered.isScreenSharing
       THEN /\ Apply(stopScreenShareOn(Cur))
            /\ UNCHANGED screenPending
       ELSE /\ screenPending + Cardinality(AcquiredScreens) < MaxScreens
            /\ screenPending' = screenPending + 1
            /\ Apply(Cur)
    /\ stopsInARow' = 0
    /\ UNCHANGED <<apiKey, auth, errorMsg, rendered, streamRef, nStarted, now,
                   transport, capScreenSharing, birth, pending, nMsgs, hist>>
    /\ UNCHANGED <<codecVars, stepVars, sendVars, videoVars>>

\* toggleScreenShare after its await
toggleScreenShareResume(granted) ==
    /\ screenPending > 0
    /\ screenPending' = screenPending - 1
    /\ IF granted
       THEN LET i == Cardinality(AcquiredScreens) + 1
            IN  /\ screenTrack' = [screenTrack EXCEPT ![i] = "live"]
                /\ screenStreamRef' = i
                /\ videoSrc' = "screen"
                /\ camVideoEnabled' = IF streamRef # Null THEN FALSE ELSE camVideoEnabled
                /\ isScreenSharing' = TRUE
       ELSE UNCHANGED <<screenTrack, screenStreamRef, videoSrc, camVideoEnabled, isScreenSharing>>
    /\ stopsInARow' = 0
    /\ UNCHANGED <<apiKey, auth, connectionState, errorMsg, rendered, streamRef, nStarted, now,
                   fault, refVars, objVars, playVars>>
    /\ isVideoEnabled' = IF granted /\ ~renderedVideo THEN TRUE ELSE isVideoEnabled
    /\ UNCHANGED <<codecVars, stepVars, sendVars, renderedVideo, capVideoEnabled>>

\* the user ends the share in the browser's own UI: the track's onended calls stopScreenShare
screenTrackEnded(i) ==
    /\ screenTrack[i] = "live"
    /\ Apply(stopScreenShareOn([Cur EXCEPT !.screenTrack[i] = "stopped"]))
    /\ stopsInARow' = 0
    /\ UNCHANGED <<apiKey, auth, errorMsg, rendered, streamRef, nStarted, now, screenPending,
                   transport, capScreenSharing, birth, pending, nMsgs, hist>>
    /\ UNCHANGED <<codecVars, stepVars, sendVars, videoVars>>

\* ---------------------------------------------------------------- session lifecycle
\* a handler that is one stopSession call and nothing else
StopOnly(sharing) ==
    /\ Apply(stopSessionOn(Cur, sharing))
    /\ hist' = NoHist
    /\ stopsInARow' = IF stopsInARow < 2 THEN stopsInARow + 1 ELSE 2

\* startSession; failAt names the statement of the try block that throws, if any
startSession(failAt) ==
    IF ~apiKey
    THEN /\ failAt = "none"
         /\ errorMsg' = "API_KEY_MISSING"
         /\ Apply(Cur)
         /\ UNCHANGED <<nStarted, transport, capScreenSharing, birth, hist>>
    ELSE /\ nStarted < MaxSessions
         /\ LET k == nStarted + 1
                s0 == [Cur EXCEPT !.connectionState = CONNECTING]
                s1 == [s0 EXCEPT !.inputCtx[k] = "running", !.inputAudioContextRef = k]
                s2 == [s1 EXCEPT !.outputCtx[k] = "running", !.outputAudioContextRef = k]
                failed(s) == stopSessionOn([s EXCEPT !.connectionState = ERROR],
                                           rendered.isScreenSharing)
            IN  /\ nStarted' = k
                /\ capScreenSharing' = IF failAt = "none"
                                       THEN [capScreenSharing EXCEPT ![k] = rendered.isScreenSharing]
                                       ELSE capScreenSharing
                /\ CASE failAt = "none" ->
                          /\ Apply([s2 EXCEPT !.sessionPromiseRef = k])
                          /\ transport' = [transport EXCEPT ![k] = "connecting"]
                          /\ birth' = [birth EXCEPT ![k] = now]
                          /\ errorMsg' = "none"
                          /\ UNCHANGED hist
                     [] failAt = "inputCtx" ->
                          /\ Apply(failed(s0))
                          /\ UNCHANGED <<transport, birth>>
                          /\ errorMsg' = "CONNECTION_FAILED_RETRY"
                          /\ hist' = NoHist
                     [] failAt = "outputCtx" ->
                          /\ Apply(failed(s1))
                          /\ UNCHANGED <<transport, birth>>
                          /\ errorMsg' = "CONNECTION_FAILED_RETRY"
                          /\ hist' = NoHist
                     [] failAt = "connect" ->
                          /\ Apply(failed(s2))
                          /\ UNCHANGED transport
                          /\ birth' = [birth EXCEPT ![k] = now]
                          /\ errorMsg' = "CONNECTION_FAILED_RETRY"
                          /\ hist' = NoHist

\* the call button
handleToggleCall(failAt) ==
    /\ auth # "unauth"
    /\ IF rendered.connectionState \in {CONNECTED, CONNECTING}
       THEN /\ failAt = "none"
            /\ StopOnly(rendered.isScreenSharing)
            /\ UNCHANGED <<errorMsg, nStarted, transport, capScreenSharing, birth>>
       ELSE /\ startSession(failAt)
            /\ stopsInARow' = 0
    /\ UNCHANGED <<apiKey, auth, rendered, streamRef, now, screenPending, pending, nMsgs>>
    /\ capVideoEnabled' =
          IF rendered.connectionState \notin {CONNECTED, CONNECTING}
             /\ apiKey /\ failAt = "none" /\ nStarted < MaxSessions
          THEN [capVideoEnabled EXCEPT ![nStarted + 1] = renderedVideo]
          ELSE capVideoEnabled
    /\ UNCHANGED <<codecVars, stepVars, sendVars, isVideoEnabled, renderedVideo>>

\* callbacks.onopen of transport k
onopen(k) ==
    /\ transport[k] = "connecting"
    /\ transport' = [transport EXCEPT ![k] = "open"]
    /\ connectionState' = CONNECTED
    /\ IF streamRef = Null \/ inputAudioContextRef = Null
       THEN UNCHANGED <<inputSource, inputSourceRef, processor, processorRef,
                        timer, frameIntervalRef>>
       ELSE /\ inputSource' = [inputSource EXCEPT ![k] = "connected"]
            /\ inputSourceRef' = k
            /\ processor' = [processor EXCEPT ![k] = "installed"]
            /\ processorRef' = k
            /\ timer' = [timer EXCEPT ![k] = "armed"]
            /\ frameIntervalRef' = k
    /\ stopsInARow' = 0
    /\ UNCHANGED <<apiKey, auth, errorMsg, rendered, streamRef, nStarted, now, fault,
                   inputAudioContextRef, outputAudioContextRef, sessionPromiseRef,
                   capScreenSharing, inputCtx, outputCtx, birth, screenVars, playVars>>
    /\ UNCHANGED <<codecVars, stepVars, sendVars, videoVars>>

\* callbacks.onclose of transport k
onclose(k) ==
    /\ transport[k] \in {"connecting", "open", "error"}
    /\ transport' = [transport EXCEPT ![k] = "closed"]
    /\ StopOnly(capScreenSharing[k])
    /\ UNCHANGED <<apiKey, auth, errorMsg, rendered, streamRef, nStarted, now, screenPending,
                   capScreenSharing, birth, pending, nMsgs>>
    /\ UNCHANGED <<codecVars, stepVars, sendVars, videoVars>>

\* the promise ai.live.connect returned is rejected: startSession does not await it and
\* attaches no rejection handler, so no code of the component runs
connectRejected(k) ==
    /\ transport[k] = "connecting"
    /\ transport' = [transport EXCEPT ![k] = "rejected"]
    /\ UNCHANGED <<apiKey, auth, connectionState, errorMsg, rendered, streamRef, nStarted, now,
                   stopsInARow, fault, refVars, capScreenSharing, inputCtx, outputCtx, birth,
                   inputSource, processor, timer, screenVars, playVars>>
    /\ UNCHANGED <<codecVars, stepVars, sendVars, videoVars>>

\* ---------------------------------------------------------------- capture and sending
\* variant of thenSend that puts a callback in front of the ones registered before it
thenSendFirst(k, item) ==
    IF k \in resolved
    THEN /\ sent' = Append(sent, item)
         /\ UNCHANGED reactions
    ELSE /\ reactions' = [reactions EXCEPT ![k] = <<[item EXCEPT !.queued = TRUE]>> \o @]
         /\ UNCHANGED sent

\* sessionPromise.then(session => session.sendRealtimeInput(item)) of session k.  On a
\* resolved promise the callback is a microtask: it runs before any other handler.  On a
\* pending promise it is queued behind the callbacks registered before it.  On a rejected
\* promise it never runs.  The field queued of an item records that its callback had to
\* wait for the promise.
thenSend(k, item) ==
    IF k \in resolved
    THEN /\ sent' = Append(sent, item)
         /\ UNCHANGED reactions
    ELSE IF transport[k] = "rejected"
    THEN UNCHANGED <<sent, reactions>>
    ELSE /\ reactions' = [reactions EXCEPT ![k] = Append(@, [item EXCEPT !.queued = TRUE])]
         /\ UNCHANGED sent

\* the promise of ai.live.connect resolves with the session: the callbacks registered
\* with then run in registration order
connectResolved(k) ==
    /\ transport[k] = "open"
    /\ k \notin resolved
    /\ resolved' = resolved \cup {k}
    /\ sent' = sent \o reactions[k]
    /\ reactions' = [reactions EXCEPT ![k] = <<>>]
    /\ UNCHANGED <<toBlobs, readers, nAudio, nVideo, appVars, codecVars, stepVars, videoVars>>

\* processor.onaudioprocess of session k: one capture block
onaudioprocess(k) ==
    /\ processor[k] = "installed"
    /\ nAudio < MaxChunks
    /\ nAudio' = nAudio + 1
    /\ thenSend(k, [k |-> k, kind |-> "audio", n |-> nAudio + 1, queued |-> FALSE])
    /\ UNCHANGED <<resolved, toBlobs, readers, nVideo, appVars, codecVars, stepVars, videoVars>>

\* the video button: setIsVideoEnabled(!isVideoEnabled)
toggleVideo ==
    /\ auth # "unauth"
    /\ isVideoEnabled' = ~renderedVideo
    /\ UNCHANGED <<renderedVideo, capVideoEnabled, appVars, codecVars, stepVars, sendVars>>

\* the interval callback of session k.  It returns at once when the isVideoEnabled of its
\* closure is false (the video and canvas elements are always mounted); otherwise a frame
\* is drawn and canvas.toBlob is called
frameTick(k) ==
    /\ timer[k] = "armed"
    /\ IF capVideoEnabled[k]
       THEN /\ nVideo < MaxFrames
            /\ nVideo' = nVideo + 1
            /\ toBlobs' = toBlobs \cup
                  {[k |-> k, kind |-> "video", n |-> nVideo + 1, queued |-> FALSE]}
       ELSE UNCHANGED <<nVideo, toBlobs>>
    /\ UNCHANGED <<resolved, reactions, sent, readers, nAudio, appVars, codecVars, stepVars, videoVars>>

\* the callback of canvas.toBlob, up to its await; a null blob is dropped
toBlobDone(f, blob) ==
    /\ f \in toBlobs
    /\ toBlobs' = toBlobs \ {f}
    /\ readers' = IF blob THEN readers \cup {f} ELSE readers
    /\ UNCHANGED <<resolved, reactions, sent, nAudio, nVideo, appVars, codecVars, stepVars, videoVars>>

\* blobToBase64 settles and the callback of canvas.toBlob resumes; a rejection ends it
base64Done(f, ok) ==
    /\ f \in readers
    /\ readers' = readers \ {f}
    /\ IF ok THEN thenSend(f.k, f) ELSE UNCHANGED <<sent, reactions>>
    /\ UNCHANGED <<resolved, toBlobs, nAudio, nVideo, appVars, codecVars, stepVars, videoVars>>

\* variant of onerror that reports the failure and tears nothing down
onerrorReportOnly(k) ==
    /\ transport[k] \in {"connecting", "open"}
    /\ transport' = [transport EXCEPT ![k] = "error"]
    /\ errorMsg' = "UPLINK_FAILURE_DETECTED"
    /\ Apply(Cur)
    /\ hist' = NoHist
    /\ stopsInARow' = 0
    /\ UNCHANGED <<apiKey, auth, rendered, streamRef, nStarted, now, screenPending,
                   capScreenSharing, birth, pending, nMsgs>>
    /\ UNCHANGED <<codecVars, stepVars, sendVars, videoVars>>

\* callbacks.onerror of transport k
onerror(k) ==
    /\ transport[k] \in {"connecting", "open"}
    /\ transport' = [transport EXCEPT ![k] = "error"]
    /\ errorMsg' = "UPLINK_FAILURE_DETECTED"
    /\ Apply(stopSessionOn(Cur, capScreenSharing[k]))
    /\ hist' = NoHist
    /\ stopsInARow' = 0
    /\ UNCHANGED <<apiKey, auth, rendered, streamRef, nStarted, now, screenPending,
                   capScreenSharing, birth, pending, nMsgs>>
    /\ UNCHANGED <<codecVars, stepVars, sendVars, videoVars>>

\* ---------------------------------------------------------------- inbound messages
\* variant of interruptOn that stops the sources already playing but keeps the set and cursor
interruptOnStopOnly(p) ==
    [p EXCEPT !.srcs = stopSources(p.srcs, p.sourcesRef)]

\* variant of scheduleOn that starts the source without advancing the cursor
scheduleOnNoAdvance(p, h, link) ==
    [p EXCEPT !.srcs = Append(p.srcs, [start |-> p.nextStartTimeRef, dur |-> h.dur,
                                       ctx |-> h.ctx, state |-> "playing", link |-> link]),
              !.sourcesRef = p.sourcesRef \cup {Len(p.srcs) + 1}]

\* variant of scheduleOn that sets the cursor to the buffer's duration
scheduleOnRewind(p, h, link) ==
    [p EXCEPT !.srcs = Append(p.srcs, [start |-> p.nextStartTimeRef, dur |-> h.dur,
                                       ctx |-> h.ctx, state |-> "playing", link |-> link]),
              !.nextStartTimeRef = h.dur,
              !.sourcesRef = p.sourcesRef \cup {Len(p.srcs) + 1}]

\* variant of anchor that re-anchors the cursor to the clock alone
anchorToClock(cursor, clock) ==
    clock

\* the `interrupted` branch of onmessage, on the playback state p
interruptOn(p) ==
    [p EXCEPT !.srcs = stopSources(p.srcs, p.sourcesRef),
              !.sourcesRef = {},
              !.nextStartTimeRef = 0]

\* the statements after the await: create the source, start it at the cursor, add it to the
\* set, advance the cursor.  link records what happened to the cursor since the last start:
\* "kept" (nothing), "raised" (an arrival moved it up to the clock), "reset" (an interruption
\* or a stop reset it)
scheduleOn(p, h, link) ==
    [p EXCEPT !.srcs = Append(p.srcs, [start |-> p.nextStartTimeRef, dur |-> h.dur,
                                       ctx |-> h.ctx, state |-> "playing", link |-> link]),
              !.nextStartTimeRef = p.nextStartTimeRef + h.dur,
              !.sourcesRef = p.sourcesRef \cup {Len(p.srcs) + 1}]

Playback ==
    [srcs |-> srcs, sourcesRef |-> sourcesRef, nextStartTimeRef |-> nextStartTimeRef]

\* the cursor re-anchoring before the await
anchor(cursor, clock) ==
    Max(cursor, clock)

\* history kept when an interruption is processed (dropped: the number of sources created
\* when the last payload was dropped, -1 while none was)
Interrupted ==
    [intrCtx |-> outputAudioContextRef,
     intrAt |-> IF outputAudioContextRef # Null THEN currentTime(outputAudioContextRef) ELSE -1,
     chain |-> "reset", dropped |-> hist.dropped]

\* callbacks.onmessage of transport k, up to its await (or to its end when there is none).
\* audio: "none" | "ok" | "bad" (a payload decodeAudioData rejects); d: the buffer's duration
onmessage(k, audio, d, intr) ==
    /\ transport[k] = "open"
    /\ audio # "none" \/ intr
    /\ audio # "ok" => d = 0
    /\ audio = "ok" => d \in Durations
    /\ LET c == outputAudioContextRef
       IN  IF audio # "none" /\ c # Null
           THEN /\ nMsgs < MaxMsgs
                /\ BagCardinality(pending) < MaxPending
                /\ nMsgs' = nMsgs + 1
                /\ nextStartTimeRef' = anchor(nextStartTimeRef, currentTime(c))
                /\ pending' = pending (+) SetToBag({
                      [ctx |-> c, dur |-> d, ok |-> (audio = "ok"), intr |-> intr,
                       afterIntr |-> IF hist.intrCtx = c THEN hist.intrAt ELSE -1]})
                /\ hist' = IF hist.chain = "kept" /\ nextStartTimeRef' > nextStartTimeRef
                           THEN [hist EXCEPT !.chain = "raised"]
                           ELSE hist
                /\ UNCHANGED <<sourcesRef, srcs>>
           ELSE IF intr
           THEN LET q == interruptOn(Playback)
                IN  /\ srcs' = q.srcs
                    /\ sourcesRef' = q.sourcesRef
                    /\ nextStartTimeRef' = q.nextStartTimeRef
                    /\ hist' = Interrupted
                    /\ UNCHANGED <<pending, nMsgs>>
           ELSE UNCHANGED playVars
    /\ stopsInARow' = 0
    /\ UNCHANGED <<apiKey, auth, connectionState, errorMsg, rendered, streamRef, nStarted, now,
                   fault, refVars, objVars, screenVars>>
    /\ UNCHANGED <<codecVars, stepVars, sendVars, videoVars>>

\* variant of tryDecode in which a rejected decode still yields a source
tryDecodeNoCatch(p, h, throws, link) ==
    IF throws THEN p ELSE scheduleOn(p, h, link)

\* the try block of onmessage from its await on, and its catch: a payload whose decode
\* rejects, or whose source cannot be created, is logged and leaves the playback state alone
tryDecode(p, h, throws, link) ==
    IF h.ok /\ ~throws THEN scheduleOn(p, h, link) ELSE p

\* the onmessage invocation h after its await.  throws: creating or starting a source on a
\* context that was closed meanwhile raises (caught by the handler's catch) or does not,
\* depending on the browser
onmessageResume(h, throws) ==
    /\ BagIn(h, pending)
    /\ throws => h.ok /\ outputCtx[h.ctx] = "closed"
    /\ LET scheduled == h.ok /\ ~throws
           p == tryDecode(Playback, h, throws, hist.chain)
           q == IF h.intr THEN interruptOn(p) ELSE p
           g == IF h.intr THEN Interrupted
                ELSE IF scheduled THEN [hist EXCEPT !.chain = "kept"]
                ELSE hist
       IN  /\ srcs' = q.srcs
           /\ sourcesRef' = q.sourcesRef
           /\ nextStartTimeRef' = q.nextStartTimeRef
           /\ hist' = IF scheduled THEN g ELSE [g EXCEPT !.dropped = Len(srcs)]
    /\ pending' = pending (-) SetToBag({h})
    /\ stopsInARow' = 0
    /\ UNCHANGED <<apiKey, auth, connectionState, errorMsg, rendered, streamRef, nStarted, now,
                   fault, nMsgs, refVars, objVars, screenVars>>
    /\ UNCHANGED <<codecVars, stepVars, sendVars, videoVars>>

\* the sources that were started and have neither played to their end nor been stopped
Audible ==
    {i \in DOMAIN srcs : srcs[i].state = "playing"}

\* variant of onended that empties the set
onendedClear(set, i) ==
    {}

\* the body of the 'ended' listener of source i
onended(set, i) ==
    set \ {i}

\* the 'ended' event of source i: dispatched when the source has played to its end, and also
\* after stop() was called on it ("stopped" becomes "stopped, ended": the listener has run)
sourceEnded(i) ==
    /\ i \in DOMAIN srcs
    /\ \/ /\ srcs[i].state = "playing"
          /\ outputCtx[srcs[i].ctx] = "running"
          /\ currentTime(srcs[i].ctx) >= srcs[i].start + srcs[i].dur
       \/ srcs[i].state = "stopped"
    /\ srcs' = [srcs EXCEPT ![i].state = IF @ = "playing" THEN "ended" ELSE "stopped, ended"]
    /\ sourcesRef' = onended(sourcesRef, i)
    /\ stopsInARow' = 0
    /\ UNCHANGED <<apiKey, auth, connectionState, errorMsg, rendered, streamRef, nStarted, now,
                   fault, nextStartTimeRef, pending, nMsgs, hist, refVars, objVars, screenVars>>
    /\ UNCHANGED <<codecVars, stepVars, sendVars, videoVars>>

\* ---------------------------------------------------------------- stopSession, step by step
\* handleTogglePiP, when the browser has answered: the surface is entered or left, or the
\* request is refused and the catch block runs
handleTogglePiP(ok) ==
    /\ auth # "unauth"
    /\ pip' = IF ok THEN ~pip ELSE pip
    /\ errorMsg' = IF ok THEN errorMsg ELSE "PIP_MODULE_ERROR"
    /\ stopsInARow' = 0
    /\ UNCHANGED <<apiKey, auth, connectionState, rendered, streamRef, nStarted, now, fault,
                   refVars, objVars, screenVars, playVars>>
    /\ UNCHANGED <<codecVars, sendVars, videoVars, pc, entry>>

\* callbacks.onclose of transport k, up to the first statement of the stopSession it calls
stopSessionBegin(k) ==
    /\ pc = 0
    /\ transport[k] \in {"connecting", "open", "error"}
    /\ transport' = [transport EXCEPT ![k] = "closed"]
    /\ pc' = 1
    /\ entry' = <<[s |-> Cur, sharing |-> capScreenSharing[k], pip |-> pip]>>
    /\ UNCHANGED <<apiKey, auth, connectionState, errorMsg, rendered, streamRef, nStarted, now,
                   stopsInARow, fault, refVars, capScreenSharing, inputCtx, outputCtx, birth,
                   inputSource, processor, timer, screenVars, playVars>>
    /\ UNCHANGED <<codecVars, sendVars, videoVars, pip>>

\* the next block of the running stopSession call.  ok: exitPictureInPicture succeeds, or its
\* promise is rejected and the rejection goes to console.error
stopSessionStep(ok) ==
    /\ pc \in 1..Len(stopSessionOrder)
    /\ Apply(stopSessionBlock(Cur, stopSessionOrder[pc], entry[1].sharing))
    /\ pip' = IF stopSessionOrder[pc] = "pictureInPicture" /\ ok THEN FALSE ELSE pip
    /\ IF pc = Len(stopSessionOrder)
       THEN /\ pc' = 0
            /\ hist' = NoHist
            /\ stopsInARow' = IF stopsInARow < 2 THEN stopsInARow + 1 ELSE 2
       ELSE /\ pc' = pc + 1
            /\ UNCHANGED <<hist, stopsInARow>>
    /\ UNCHANGED <<apiKey, auth, errorMsg, rendered, streamRef, nStarted, now, screenPending,
                   transport, capScreenSharing, birth, pending, nMsgs>>
    /\ UNCHANGED <<codecVars, sendVars, videoVars, entry>>

\* ---------------------------------------------------------------- specification
FailPoints ==
    {"none", "inputCtx", "outputCtx", "connect"}
Payloads ==
    {"none", "ok", "bad"}

\* Playback: one session from login to teardown.  The camera is granted, the call button
\* starts the session once and the remote side closes it; inbound messages of every kind
\* arrive at any time, each audio handler suspends at its decode, and the audio clock runs.
\* Sources end by playing out; the 'ended' events that follow a stop() are in ActiveNext.
PlaybackNext ==
    \/ Authenticate
    \/ startCamera(TRUE)
    \/ Tick
    \/ (auth = "granted" /\ nStarted = 0 /\ handleToggleCall("none"))
    \/ \E k \in Sessions : onopen(k)
    \/ \E k \in Sessions : onclose(k)
    \/ \E k \in Sessions, audio \in Payloads, d \in Durations \cup {0}, intr \in BOOLEAN :
          onmessage(k, audio, d, intr)
    \/ \E h \in BagToSet(pending), throws \in BOOLEAN : onmessageResume(h, throws)
    \/ \E i \in 1..MaxMsgs : i \in Audible /\ sourceEnded(i)

SpecPlayback ==
    Init /\ [][PlaybackNext]_vars

\* Active set: the playback specification with every 'ended' event, those dispatched after
\* an interruption or a teardown called stop() on the source included.
ActiveNext ==
    \/ Authenticate
    \/ startCamera(TRUE)
    \/ Tick
    \/ (auth = "granted" /\ nStarted = 0 /\ handleToggleCall("none"))
    \/ \E k \in Sessions : onopen(k)
    \/ \E k \in Sessions : onclose(k)
    \/ \E k \in Sessions, audio \in Payloads, d \in Durations \cup {0}, intr \in BOOLEAN :
          onmessage(k, audio, d, intr)
    \/ \E h \in BagToSet(pending), throws \in BOOLEAN : onmessageResume(h, throws)
    \/ \E i \in 1..MaxMsgs : sourceEnded(i)

SpecActive ==
    Init /\ [][ActiveNext]_vars

\* Lifecycle: every user and transport event of the session, in any order and with any
\* render timing: login, camera granted or denied, the call button (with a throw at any
\* statement of startSession's try block), screen sharing, the transport's open, close
\* and error callbacks.  Audio payloads arrive while nothing has been played yet, so that
\* teardown meets suspended handlers and live sources; the clock stands still.  One screen
\* stream is acquired; several are in ScreenNext.
Next ==
    \/ Authenticate
    \/ \E granted \in BOOLEAN : startCamera(granted)
    \/ Render
    \/ (FirstShare /\ toggleScreenShare)
    \/ \E granted \in BOOLEAN : toggleScreenShareResume(granted)
    \/ \E i \in Screens : screenTrackEnded(i)
    \/ \E failAt \in FailPoints : handleToggleCall(failAt)
    \/ \E k \in Sessions : onopen(k)
    \/ \E k \in Sessions : onclose(k)
    \/ \E k \in Sessions : onerror(k)
    \/ \E k \in Sessions : connectRejected(k)
    \/ \E k \in Sessions : Len(srcs) = 0 /\ onmessage(k, "ok", 1, FALSE)
    \/ \E h \in BagToSet(pending) : onmessageResume(h, FALSE)

Spec ==
    Init /\ [][Next]_vars

\* Teardown: one session with stopSession run block by block.  No other handler runs
\* while a stopSession call is under way (it has no await); the session is started once by
\* the call button, before or after screen sharing and the presentation surface were
\* switched on, and torn down by the transport's close callback at any point after.
TeardownNext ==
    \/ (pc = 0 /\ Authenticate)
    \/ (pc = 0 /\ startCamera(TRUE))
    \/ (pc = 0 /\ Render)
    \/ (pc = 0 /\ FirstShare /\ toggleScreenShare)
    \/ (pc = 0 /\ toggleScreenShareResume(TRUE))
    \/ (pc = 0 /\ nStarted = 0 /\ handleToggleCall("none"))
    \/ \E k \in Sessions : pc = 0 /\ onopen(k)
    \/ \E k \in Sessions : pc = 0 /\ Len(srcs) = 0 /\ onmessage(k, "ok", 1, FALSE)
    \/ \E h \in BagToSet(pending) : pc = 0 /\ onmessageResume(h, FALSE)
    \/ \E ok \in BOOLEAN : pc = 0 /\ handleTogglePiP(ok)
    \/ \E k \in Sessions : stopSessionBegin(k)
    \/ \E ok \in BOOLEAN : stopSessionStep(ok)

SpecTeardown ==
    Init /\ [][TeardownNext]_vars

\* Screens: screen sharing switched on and off any number of times, with any render timing
\* and any answer to each device request, around one session that the call button starts
\* and the transport's close callback tears down.
ScreenNext ==
    \/ Authenticate
    \/ \E granted \in BOOLEAN : startCamera(granted)
    \/ Render
    \/ toggleScreenShare
    \/ \E granted \in BOOLEAN : toggleScreenShareResume(granted)
    \/ \E i \in Screens : screenTrackEnded(i)
    \/ (nStarted = 0 /\ handleToggleCall("none"))
    \/ \E k \in Sessions : onopen(k)
    \/ \E k \in Sessions : onclose(k)

SpecScreen ==
    Init /\ [][ScreenNext]_vars

\* ---------------------------------------------------------------- PCM round trip
\* the sample values tried: the ends of [-1, 1], 0 and every SampleStep-th value between
Samples ==
    {-SampleDen, 0, SampleDen} \cup {n \in (-SampleDen)..SampleDen : n % SampleStep = 0}
Blocks ==
    UNION {[1..l -> Samples] : l \in 1..MaxLen}

\* a capture block is about to be handed to createBlob
InitCodec ==
    /\ InitApp
    /\ floatData \in Blocks
    /\ blobData = <<>>
    /\ channelData = <<>>

\* onaudioprocess: pcmBlob = createBlob(inputData)
createBlobStep ==
    /\ blobData = <<>>
    /\ blobData' = createBlob(floatData)
    /\ UNCHANGED <<floatData, channelData, appVars, sendVars, videoVars, stepVars>>

\* the block decoded the way onmessage decodes a payload: decodeAudioData(decode(data), ...)
decodeStep ==
    /\ blobData # <<>>
    /\ channelData = <<>>
    /\ channelData' = decodeAudioData(decode(blobData))
    /\ UNCHANGED <<floatData, blobData, appVars, sendVars, videoVars, stepVars>>

CodecNext ==
    \/ createBlobStep
    \/ decodeStep
SpecCodec ==
    InitCodec /\ [][CodecNext]_vars

\* ---------------------------------------------------------------- sending
\* Sending: one session from login to teardown, with the camera granted.  The transport
\* opens, its promise resolves some time later, audio blocks and video frames are
\* captured, encodings and conversions complete in any order, and the session is stopped
\* by the call button or by the remote side.
SendNext ==
    \/ Authenticate
    \/ startCamera(TRUE)
    \/ Render
    \/ ((nStarted = 0 \/ rendered.connectionState \in {CONNECTED, CONNECTING})
          /\ handleToggleCall("none"))
    \/ \E k \in Sessions : onopen(k)
    \/ \E k \in Sessions : onclose(k)
    \/ \E k \in Sessions : connectResolved(k)
    \/ \E k \in Sessions : onaudioprocess(k)
    \/ \E k \in Sessions : frameTick(k)
    \/ toggleVideo
    \/ \E f \in toBlobs, blob \in BOOLEAN : toBlobDone(f, blob)
    \/ \E f \in readers, ok \in BOOLEAN : base64Done(f, ok)
SpecSend ==
    Init /\ [][SendNext]_vars

\* ---------------------------------------------------------------- playback claims
\* end of source i on its timeline
EndOf(i) ==
    srcs[i].start + srcs[i].dur

RECURSIVE SumDur(_, _)
SumDur(i, j) ==
    IF i > j THEN 0 ELSE srcs[i].dur + SumDur(i + 1, j)

\* C1: with no interruption and no stop between two consecutively scheduled buffers, the
\* later one's start time is never earlier than the earlier one's start time plus its
\* duration, whatever the arrival times were.
C1_NoOverlap ==
    \A i \in 2..Len(srcs) : srcs[i].link # "reset" => srcs[i].start >= EndOf(i - 1)

\* a buffer that arrived after the previous one's end was scheduled behind a gap
C1_Witness ==
    \E i \in 2..Len(srcs) : srcs[i].link = "raised" /\ srcs[i].start > EndOf(i - 1)

C3_InterruptStep ==
    \/ \E k \in Sessions : onmessage(k, "none", 0, TRUE)
    \/ \E k \in Sessions, audio \in {"ok", "bad"}, d \in Durations \cup {0} :
          outputAudioContextRef = Null /\ onmessage(k, audio, d, TRUE)
    \/ \E h \in BagToSet(pending), throws \in BOOLEAN : h.intr /\ onmessageResume(h, throws)

\* C3: processing a message that carries the interrupted flag force-stops every source of
\* the active set (the one the same message just started included), empties the set and
\* sets the cursor to 0.
C3_InterruptClears ==
    [][C3_InterruptStep =>
          /\ sourcesRef' = {}
          /\ nextStartTimeRef' = 0
          /\ \A i \in DOMAIN srcs' :
                (i \in sourcesRef \/ i \notin DOMAIN srcs) => srcs'[i].state = "stopped"]_vars

\* an interruption has stopped two sources that were in the set together
C3_Witness ==
    /\ Len(srcs) >= 2
    /\ srcs[1].state = "stopped" /\ srcs[2].state = "stopped" /\ srcs[2].link = "kept"
    /\ sourcesRef = {}
    /\ nextStartTimeRef = 0
    /\ hist.intrCtx # Null /\ hist.chain = "reset"

\* C4 (as claimed): within one session, a payload received after an interruption that was
\* processed at clock time T is scheduled with a start time >= T.  h.afterIntr is that T,
\* recorded when the payload arrived; nextStartTimeRef is the start time the resumed handler
\* passes to source.start.
C4_StartsAfterInterruption ==
    [][\A h \in BagToSet(pending) :
          (/\ h.ok
           /\ h.afterIntr >= 0
           /\ outputAudioContextRef = h.ctx
           /\ onmessageResume(h, FALSE))
             => nextStartTimeRef >= h.afterIntr]_vars

\* ---------------------------------------------------------------- teardown claims
\* the handles stopSession releases
SessionRefsNull(s) ==
    /\ s.frameIntervalRef = Null
    /\ s.processorRef = Null
    /\ s.inputSourceRef = Null
    /\ s.inputAudioContextRef = Null
    /\ s.outputAudioContextRef = Null
    /\ s.sessionPromiseRef = Null

\* the end state the claims name
Stopped(s) ==
    /\ s.connectionState = DISCONNECTED
    /\ s.sourcesRef = {}
    /\ s.nextStartTimeRef = 0
    /\ SessionRefsNull(s)

\* C5: stopSession is idempotent.  From every reachable state, and for either value of
\* isScreenSharing its closure holds, a second call right after the first changes nothing:
\* the state is the one the first call left (DISCONNECTED, empty active set, cursor 0, the
\* session's handles null) and no fault is raised.  A second call through a closure that
\* holds another isScreenSharing keeps all of that too.  The handles are the ones stopSession
\* owns (timer, processor, source node, both contexts, session promise).
C5_StopTwice ==
    /\ \A c \in BOOLEAN :
          LET s1 == stopSessionOn(Cur, c)
              s2 == stopSessionOn(s1, c)
          IN  /\ s2 = s1
              /\ Stopped(s1)
              /\ s1.fault = fault
    /\ \A c1 \in BOOLEAN, c2 \in BOOLEAN :
          LET s1 == stopSessionOn(Cur, c1)
              s2 == stopSessionOn(s1, c2)
          IN  /\ Stopped(s2)
              /\ s2.fault = s1.fault
              /\ s2.timer = s1.timer /\ s2.processor = s1.processor
              /\ s2.inputSource = s1.inputSource
              /\ s2.inputCtx = s1.inputCtx /\ s2.outputCtx = s1.outputCtx
              /\ s2.srcs = s1.srcs
    /\ stopsInARow = 2 => Stopped(Cur) /\ ~fault

\* two stopSession calls ran back to back on a session that had live resources
C5_Witness ==
    /\ stopsInARow = 2
    /\ \E k \in Sessions :
          /\ timer[k] = "cleared" /\ processor[k] = "detached"
          /\ inputCtx[k] = "closed" /\ outputCtx[k] = "closed"
    /\ \E i \in DOMAIN srcs : srcs[i].state = "stopped"
    /\ ~fault

\* C6 (as claimed): once teardown has run and until a session is started, no playback
\* source is added to the active set.
C6_NoSourceAfterTeardown ==
    [][(sessionPromiseRef = Null /\ outputAudioContextRef = Null)
          => sourcesRef' \subseteq sourcesRef]_vars

\* a handler that ends with a stopSession call on the state it found
StopCalled ==
    \/ \E k \in Sessions : onclose(k)
    \/ \E k \in Sessions : onerror(k)
    \/ rendered.connectionState \in {CONNECTED, CONNECTING} /\ handleToggleCall("none")

\* startSession's catch block ran: ERROR is set and stopSession is called from it
CatchStopCalled ==
    \E failAt \in FailPoints \ {"none"} : handleToggleCall(failAt)

\* C7 (as claimed): after teardown no capture device is active: the camera/microphone
\* stream has no live track and no screen-share track is live.
C7_NoCaptureAfterTeardown ==
    [][StopCalled
          => /\ streamRef' = Null
             /\ \A i \in Screens : screenTrack'[i] # "live"]_vars

LiveTransports ==
    {k \in Sessions : transport[k] \in {"connecting", "open"}}

\* C8 (as claimed): at most one session is active.  Checked on the call button pressed when
\* the committed render shows the current connection state and at most one transport is
\* live: after it there is still at most one transport whose callbacks can act and at most
\* one running context of each kind.
C8_OneSession ==
    [][(/\ rendered.connectionState = connectionState
        /\ Cardinality(LiveTransports) <= 1
        /\ \E failAt \in FailPoints : handleToggleCall(failAt))
          => /\ Cardinality(LiveTransports') <= 1
             /\ Cardinality({k \in Sessions : inputCtx'[k] = "running"}) <= 1
             /\ Cardinality({k \in Sessions : outputCtx'[k] = "running"}) <= 1]_vars

\* C9 (as claimed): a start request made while the connection state is CONNECTING or
\* CONNECTED opens no transport, allocates no context and leaves the state unchanged.
C9_StartOnlyWhenDisconnected ==
    [][(/\ connectionState \in {CONNECTING, CONNECTED}
        /\ rendered.connectionState \notin {CONNECTING, CONNECTED}
        /\ \E failAt \in FailPoints : handleToggleCall(failAt))
          => /\ nStarted' = nStarted
             /\ UNCHANGED <<transport, inputCtx, outputCtx, connectionState>>]_vars

\* C10: stopSession leaves the connection state DISCONNECTED, the timer the ref named
\* cleared, the processor and source node the refs named detached and disconnected, the
\* contexts the refs named closed, every ref null (the session promise included), every
\* source of the active set stopped, the set empty and the cursor 0.  Called from
\* CONNECTING or CONNECTED it is a handler of its own; called from ERROR it ends
\* startSession's catch block, and the contexts that call created are closed.
C10_StopPostState ==
    [][/\ StopCalled =>
             /\ Stopped(Cur)'
             /\ frameIntervalRef # Null => timer'[frameIntervalRef] = "cleared"
             /\ processorRef # Null => processor'[processorRef] = "detached"
             /\ inputSourceRef # Null => inputSource'[inputSourceRef] = "disconnected"
             /\ inputAudioContextRef # Null => inputCtx'[inputAudioContextRef] = "closed"
             /\ outputAudioContextRef # Null => outputCtx'[outputAudioContextRef] = "closed"
             /\ \A i \in sourcesRef : srcs'[i].state = "stopped"
       /\ CatchStopCalled =>
             /\ Stopped(Cur)'
             /\ inputCtx'[nStarted'] # "running" /\ outputCtx'[nStarted'] # "running"
             /\ \A i \in sourcesRef : srcs'[i].state = "stopped"]_vars

\* a connected session with a playing source has been stopped
C10_Witness ==
    /\ stopsInARow = 1
    /\ connectionState = DISCONNECTED
    /\ sessionPromiseRef = Null /\ outputAudioContextRef = Null
    /\ \E k \in Sessions :
          /\ transport[k] = "open"
          /\ timer[k] = "cleared" /\ processor[k] = "detached"
          /\ inputSource[k] = "disconnected"
          /\ inputCtx[k] = "closed" /\ outputCtx[k] = "closed"
    /\ \E i \in DOMAIN srcs : srcs[i].state = "stopped"

\* ---------------------------------------------------------------- remote signals
\* C11 (as claimed): a remote close leaves the state a user stop in the same state would
\* leave.  The user stop is stopSession as the committed render holds it; the render is
\* current, so it holds the current isScreenSharing.
C11_CloseIsStop ==
    [][\A k \in Sessions :
          (rendered.isScreenSharing = isScreenSharing /\ onclose(k))
             => Apply(stopSessionOn(Cur, rendered.isScreenSharing))]_vars

OpenFailed ==
    \/ ~apiKey /\ handleToggleCall("none")
    \/ CatchStopCalled
    \/ \E k \in Sessions : connectRejected(k) /\ sessionPromiseRef = k

\* C13 (as claimed): every failure to open the transport sets a failure message, runs the
\* teardown and leaves the connection state DISCONNECTED, never CONNECTING.
C13_OpenFailureHandled ==
    [][OpenFailed =>
          /\ errorMsg' \in {"API_KEY_MISSING", "CONNECTION_FAILED_RETRY", "UPLINK_FAILURE_DETECTED"}
          /\ connectionState' = DISCONNECTED
          /\ Stopped(Cur)']_vars

\* C14 (as claimed): when getUserMedia was refused there is no capture stream, the failure
\* message is set, and a press of the call button afterwards opens no transport and leaves
\* the connection state DISCONNECTED.
C14_NoSessionWithoutCapture ==
    [][/\ startCamera(FALSE) => (errorMsg' = "CAMERA_ACCESS_DENIED" /\ streamRef' = Null)
       /\ (auth = "denied" /\ streamRef = Null /\ \E failAt \in FailPoints : handleToggleCall(failAt))
             => (transport' = transport /\ connectionState' = DISCONNECTED)]_vars

\* a handler of the screen-share button or of the screen track runs
ScreenShareStep ==
    \/ toggleScreenShare
    \/ \E granted \in BOOLEAN : toggleScreenShareResume(granted)
    \/ \E i \in Screens : screenTrackEnded(i)

\* C15: switching screen sharing on or off (toggleScreenShare before and after its await,
\* stopScreenShare from the button or from the track's onended) changes nothing of the
\* microphone capture: the processor, the input source node, the input context, the refs
\* to them and the capture stream that carries the microphone track stay as they were.
C15_ScreenShareKeepsCapture ==
    [][ScreenShareStep =>
          UNCHANGED <<processorRef, inputSourceRef, inputAudioContextRef,
                      processor, inputSource, inputCtx, streamRef>>]_vars

\* the only session so far is connected and capturing, its committed render saw it
\* connected and sharing, and the share has been switched off since
C15_Witness ==
    /\ nStarted = 1
    /\ rendered.connectionState = CONNECTED /\ rendered.isScreenSharing
    /\ connectionState = CONNECTED
    /\ streamRef # Null /\ camVideoEnabled /\ ~isScreenSharing
    /\ \E i \in Screens : screenTrack[i] = "stopped"
    /\ processorRef # Null /\ processor[processorRef] = "installed"
    /\ inputSourceRef # Null /\ inputSource[inputSourceRef] = "connected"
    /\ inputAudioContextRef # Null /\ inputCtx[inputAudioContextRef] = "running"

Abs(x) ==
    IF x >= 0 THEN x ELSE -x

\* C16 (as claimed): every sample of [-1, 1], 1.0 included, comes back from createBlob
\* followed by decode and decodeAudioData within one int16 step, 1 / 32768.
C16_RoundTrip ==
    channelData # <<>> =>
        /\ Len(channelData) = Len(floatData)
        /\ \A i \in DOMAIN floatData :
              Abs(channelData[i] * PerStep - floatData[i]) <= PerStep

\* the items of one kind in a sequence of items, in the order of the sequence
OfKind(items, kind) ==
    SelectSeq(items, LAMBDA x : x.kind = kind)

\* capture numbers rise along a sequence of items
Rising(items) ==
    \A i \in DOMAIN items, j \in DOMAIN items : i < j => items[i].n < items[j].n

\* C17: the audio blocks are passed to sendRealtimeInput in the order they were captured,
\* whether their callbacks ran at once or waited for the session promise; the callbacks
\* still waiting are in capture order too.
C17_AudioInCaptureOrder ==
    /\ Rising(OfKind(sent, "audio"))
    /\ \A k \in Sessions : Rising(OfKind(reactions[k], "audio"))

\* two blocks have been sent in order: the first was captured while the session promise
\* was pending, the second after it had resolved
C17_Witness ==
    LET audio == OfKind(sent, "audio")
    IN  /\ Len(audio) >= 2
        /\ audio[1].queued /\ ~audio[2].queued
        /\ audio[1].n < audio[2].n

\* C18 (as claimed): the video frames are passed to sendRealtimeInput in the order they
\* were drawn, whatever the order in which canvas.toBlob and blobToBase64 complete.
C18_VideoInCaptureOrder ==
    Rising(OfKind(sent, "video"))

\* stopSession has run and nothing has installed capture since: SendNext starts one
\* session and no start fails, so DISCONNECTED after a start is the state stopSession set
AfterStop ==
    /\ nStarted > 0
    /\ connectionState = DISCONNECTED
    /\ processorRef = Null /\ frameIntervalRef = Null /\ sessionPromiseRef = Null

\* C20 (as claimed): once stopSession has run, sendRealtimeInput is called no more, neither
\* for a frame that was being encoded nor for an audio block whose callback waits for the
\* session promise.
C20_NoSendAfterStop ==
    [][AfterStop => sent' = sent]_vars

\* C19 (as claimed): an interruption happens before everything scheduled after it.  When a
\* handler resumes whose payload arrived before an interruption that has been processed
\* on its context since (the last interruption is later than the one the handler saw on
\* arrival), the buffer it carries is not left playing and is not in the active set.
C19_InterruptedHappensBefore ==
    [][\A h \in BagToSet(pending), throws \in BOOLEAN :
          (/\ hist.intrCtx = h.ctx
           /\ hist.intrAt > h.afterIntr
           /\ onmessageResume(h, throws))
             => \A i \in DOMAIN srcs' \ DOMAIN srcs :
                    srcs'[i].state # "playing" /\ i \notin sourcesRef']_vars

\* ---------------------------------------------------------------- capture claims
\* the sessions whose audio processor still delivers blocks, or whose interval still fires
Capturing ==
    {k \in Sessions : processor[k] = "installed" \/ timer[k] = "armed"}

\* C21 (as claimed): an audio processor is installed or a frame timer is armed only while
\* the connection state is CONNECTED.
C21_CaptureOnlyConnected ==
    Capturing # {} => connectionState = CONNECTED

\* C22 (as claimed): the open acknowledgment of transport k sets the connection state to
\* CONNECTED and activates capture: the audio processor of k is installed and its frame
\* timer is armed.
C22_OpenActivatesCapture ==
    [][\A k \in Sessions : onopen(k) =>
          /\ connectionState' = CONNECTED
          /\ processor'[k] = "installed" /\ processorRef' = k
          /\ timer'[k] = "armed" /\ frameIntervalRef' = k]_vars

\* C23 (as claimed): an interval callback that fires while video is switched off, and the
\* committed render shows it switched off, draws and sends no frame.
C23_NoFrameWhileVideoOff ==
    [][\A k \in Sessions :
          (~isVideoEnabled /\ ~renderedVideo /\ frameTick(k))
             => (toBlobs' = toBlobs /\ nVideo' = nVideo)]_vars

\* C24 (as claimed): after every teardown, whatever sequence of starts, stops, open
\* acknowledgments, closes and errors came before, no session's audio processor is
\* installed and no session's frame timer is armed.
C24_NoDanglingCapture ==
    [][(StopCalled \/ CatchStopCalled) => Capturing' = {}]_vars

\* ---------------------------------------------------------------- playback claims, continued
\* C25: no step lowers the timeline cursor, except the steps that reset it: a processed
\* interruption and stopSession, and these set it to 0.
C25_CursorMonotone ==
    [][\/ nextStartTimeRef' >= nextStartTimeRef
       \/ /\ nextStartTimeRef' = 0
          /\ C3_InterruptStep \/ StopCalled \/ CatchStopCalled]_vars

\* after an interruption stopped a source, a later buffer was anchored to the clock and the
\* cursor advanced past it
C25_Witness ==
    /\ hist.intrCtx # Null
    /\ \E i \in 2..Len(srcs) :
          /\ srcs[i - 1].state = "stopped"
          /\ srcs[i].link = "reset"
          /\ srcs[i].start > 0
          /\ nextStartTimeRef >= EndOf(i)

\* C26: a payload whose decode fails is dropped: handling it adds no source, leaves the
\* connection state and every session resource as they were, and a payload decoded after it
\* is started at the cursor, joins the active set and advances the cursor by its duration.
C26_DecodeFailureContained ==
    [][\A h \in BagToSet(pending) :
          /\ (~h.ok /\ onmessageResume(h, FALSE)) =>
                /\ srcs' = IF h.intr THEN stopSources(srcs, sourcesRef) ELSE srcs
                /\ sourcesRef' \subseteq sourcesRef
                /\ connectionState' = connectionState
                /\ errorMsg' = errorMsg
                /\ UNCHANGED <<refVars, objVars>>
          /\ (h.ok /\ hist.dropped >= 0 /\ onmessageResume(h, FALSE)) =>
                /\ Len(srcs') = Len(srcs) + 1
                /\ srcs'[Len(srcs')].start = nextStartTimeRef
                /\ srcs'[Len(srcs')].dur = h.dur
                /\ ~h.intr => /\ srcs'[Len(srcs')].state = "playing"
                              /\ Len(srcs') \in sourcesRef'
                              /\ nextStartTimeRef' = nextStartTimeRef + h.dur]_vars

\* a payload was dropped while CONNECTED and a later one is playing in the running context
C26_Witness ==
    /\ hist.dropped >= 0
    /\ connectionState = CONNECTED
    /\ outputAudioContextRef # Null
    /\ \E i \in sourcesRef : /\ i > hist.dropped
                             /\ srcs[i].state = "playing"
                             /\ srcs[i].ctx = outputAudioContextRef

\* ---------------------------------------------------------------- camera and screen
\* the screen stream the app holds, while its track is live
ScreenLive ==
    screenStreamRef # Null /\ screenTrack[screenStreamRef] = "live"

\* C27: camera and screen video exclude each other in every reachable state: while a screen
\* stream is live the video element shows it and the camera's video track is disabled; while
\* none is live the camera's video track is enabled and the element shows the camera.
C27_CameraXorScreen ==
    /\ ScreenLive => videoSrc = "screen" /\ (streamRef # Null => ~camVideoEnabled)
    /\ (~ScreenLive /\ streamRef # Null) => camVideoEnabled /\ videoSrc = "camera"

\* ---------------------------------------------------------------- active-playback set
\* C28: the active-playback set is exactly the set of sources started and neither completed
\* nor force-stopped; a source's completion callback removes it, and the callback of a source
\* that an interruption or a stop already removed leaves the set as it was.
C28_ActiveSetExact ==
    /\ [](sourcesRef = Audible)
    /\ [][\A i \in DOMAIN srcs : sourceEnded(i) =>
             /\ i \notin sourcesRef'
             /\ srcs[i].state = "stopped" => sourcesRef' = sourcesRef]_vars

\* the callback of a stopped source has run while a later source is in the set
C28_Witness ==
    \E i, j \in DOMAIN srcs :
        /\ srcs[i].state = "stopped, ended"
        /\ i < j
        /\ j \in sourcesRef

\* ---------------------------------------------------------------- teardown order
\* what each block of stopSession leaves behind, in the order the blocks are stated
Released ==
    << frameIntervalRef = Null,
       processorRef = Null /\ inputSourceRef = Null,
       inputAudioContextRef = Null,
       outputAudioContextRef = Null,
       sourcesRef = {} /\ nextStartTimeRef = 0,
       sessionPromiseRef = Null,
       Len(entry) = 1 /\ entry[1].sharing => screenStreamRef = Null /\ ~isScreenSharing,
       ~pip >>

\* the block-by-block run of stopSession ends in the state stopSessionOn computes
StepwiseIsStopSession ==
    [][(pc # 0 /\ pc' = 0) => Cur' = stopSessionOn(entry[1].s, entry[1].sharing)]_vars

\* C29: stopSession works in this order: video timer, audio processor and source node, input
\* context, output context, playback sources and cursor, transport handle, screen sharing,
\* presentation surface.  A step of a teardown that releases one of them finds every earlier
\* one released and releases none of the later ones; the last step changes nothing but the
\* presentation surface, whether or not leaving it succeeds, and ends the teardown.
C29_TeardownOrder ==
    [][pc # 0 =>
         /\ \A j \in 1..8 : (~Released[j] /\ Released[j]') =>
                /\ \A i \in 1..(j - 1) : Released[i]
                /\ \A i \in (j + 1)..8 : Released[i]' = Released[i]
         /\ pc = 8 => (Cur' = Cur /\ errorMsg' = errorMsg /\ pc' = 0)
         /\ pc' = 0 => \A i \in 1..7 : Released[i]']_vars

\* a teardown that found all eight things to release has finished
C29_Witness ==
    /\ pc = 0
    /\ Len(entry) = 1
    /\ entry[1].s.frameIntervalRef # Null
    /\ entry[1].s.processorRef # Null
    /\ entry[1].s.inputAudioContextRef # Null
    /\ entry[1].s.outputAudioContextRef # Null
    /\ entry[1].s.sourcesRef # {}
    /\ entry[1].s.sessionPromiseRef # Null
    /\ entry[1].sharing /\ entry[1].s.screenStreamRef # Null
    /\ entry[1].pip
    /\ connectionState = DISCONNECTED
    /\ \A i \in 1..8 : Released[i]

\* ---------------------------------------------------------------- stop while connecting
\* session k was torn down before its transport opened, and nothing was started since
StoppedWhileConnecting(k) ==
    /\ transport[k] = "connecting"
    /\ inputCtx[k] = "closed"
    /\ nStarted = k
    /\ connectionState = DISCONNECTED

\* C30: after stopSession ran during CONNECTING, the open acknowledgment of the stopped
\* session leaves the connection state DISCONNECTED and installs no processor and no timer.
C30_LateOpenIgnored ==
    [][\A k \in Sessions : (StoppedWhileConnecting(k) /\ onopen(k)) =>
          /\ connectionState' = DISCONNECTED
          /\ processor'[k] # "installed"
          /\ timer'[k] # "armed"]_vars

\* ---------------------------------------------------------------- session succession
\* session k was torn down and a later session n has been started and holds the refs
Superseded(k) ==
    /\ inputCtx[k] = "closed"
    /\ outputCtx[k] = "closed"
    /\ \E n \in (k + 1)..nStarted :
          /\ transport[n] \in {"connecting", "open"}
          /\ inputAudioContextRef = n
          /\ outputAudioContextRef = n
          /\ sessionPromiseRef = n

\* a callback of transport k runs in this step
CallbackOf(k) ==
    \/ onopen(k)
    \/ onclose(k)
    \/ onerror(k)
    \/ \E audio \in Payloads, d \in Durations \cup {0}, intr \in BOOLEAN :
          onmessage(k, audio, d, intr)

\* C31: once a session was torn down and a new one started, no open, message, close or error
\* callback of the old transport changes the connection state, releases or installs any
\* session resource, or touches the playback state.
C31_OldSessionInert ==
    [][\A k \in Sessions : (Superseded(k) /\ CallbackOf(k)) =>
          /\ connectionState' = connectionState
          /\ UNCHANGED <<refVars, inputCtx, outputCtx, inputSource, processor, timer>>
          /\ UNCHANGED <<nextStartTimeRef, sourcesRef, srcs, pending>>]_vars

\* ---------------------------------------------------------------- screen streams
\* the step is a call of stopScreenShare: by the share button, by the track's onended, or by a
\* stopSession whose closure saw isScreenSharing
StopScreenShareCalled ==
    \/ rendered.isScreenSharing /\ toggleScreenShare
    \/ \E i \in Screens : screenTrackEnded(i)
    \/ \E k \in Sessions : capScreenSharing[k] /\ onclose(k)

\* C32: every acquired screen stream is the one screenStreamRef names or has its track
\* stopped, so at most one is live; and after stopScreenShare no acquired track is live.
C32_NoLeakedScreen ==
    /\ [](\A i \in Screens : screenTrack[i] = "live" => screenStreamRef = i)
    /\ [][StopScreenShareCalled => \A i \in Screens : screenTrack'[i] # "live"]_vars

====
